---- MODULE Spec2Model ----
(***************************************************************************)
(* Model of src/main.py: a Qt system-tray widget supervising one systemd   *)
(* user unit.  Strings are sequences of one-character strings, so that     *)
(* shlex.quote, shlex.split and str.strip are computed as the library      *)
(* computes them.  The Qt event loop is single threaded: a slot runs to    *)
(* completion, and subprocess.run blocks the thread until the child exits. *)
(***************************************************************************)
EXTENDS Integers, Sequences, FiniteSets, TLC

\* ---- bounds of the model ------------------------------------------------
MaxQueue == 1
MaxDialogs == 1

\* ---- literals of the source ---------------------------------------------
SYSTEMCTL_USER == <<"s","y","s","t","e","m","c","t","l"," ","-","-","u","s","e","r">>
IS_ACTIVE == <<"i","s","-","a","c","t","i","v","e">>
IS_ENABLED == <<"i","s","-","e","n","a","b","l","e","d">>
START == <<"s","t","a","r","t">>
STOP == <<"s","t","o","p">>
RESTART == <<"r","e","s","t","a","r","t">>
ENABLE == <<"e","n","a","b","l","e">>
DISABLE == <<"d","i","s","a","b","l","e">>
TEXT_ACTIVE == <<"a","c","t","i","v","e">>
TEXT_ENABLED == <<"e","n","a","b","l","e","d">>
JOURNALCTL_U == <<"j","o","u","r","n","a","l","c","t","l"," ","-","u"," ">>
JOURNAL_TAIL == <<" ","-","n"," ","1","0","0"," ","-","-","n","o","-","p","a","g","e","r"," ","-","-","o","u","t","p","u","t","=","s","h","o","r","t">>
FAILED_TO == <<"F","a","i","l","e","d"," ","t","o"," ">>
FAILED_ENABLE == <<"F","a","i","l","e","d"," ","t","o"," ","c","h","a","n","g","e"," ","e","n","a","b","l","e"," ","s","t","a","t","e">>

\* ---- str and shlex ------------------------------------------------------
Whitespace == {" ", "\t", "\n", "\r"}

\* the characters shlex.quote leaves unquoted: [A-Za-z0-9_@%+=:,./-]
SafeChars ==
  {"a","b","c","d","e","f","g","h","i","j","k","l","m","n","o","p","q","r",
   "s","t","u","v","w","x","y","z",
   "A","B","C","D","E","F","G","H","I","J","K","L","M","N","O","P","Q","R",
   "S","T","U","V","W","X","Y","Z",
   "0","1","2","3","4","5","6","7","8","9",
   "_","@","%","+","=",":",",",".","/","-"}

Quotes == {"'", "\""}
Escape == "\\"

RECURSIVE lstrip(_)
lstrip(s) ==
  IF s # <<>> /\ Head(s) \in Whitespace THEN lstrip(Tail(s)) ELSE s

RECURSIVE rstrip(_)
rstrip(s) ==
  IF s # <<>> /\ s[Len(s)] \in Whitespace
  THEN rstrip(SubSeq(s, 1, Len(s) - 1)) ELSE s

\* a mutant of strip: the output is compared untrimmed
strip_none(s) == s

\* str.strip()
strip(s) == lstrip(rstrip(s))

RECURSIVE replace_quote(_)
\* s.replace("'", "'\"'\"'")
replace_quote(s) ==
  IF s = <<>> THEN <<>>
  ELSE (IF Head(s) = "'" THEN <<"'", "\"", "'", "\"", "'">> ELSE <<Head(s)>>)
       \o replace_quote(Tail(s))

\* shlex.quote
quote(s) ==
  IF s = <<>> THEN <<"'", "'">>
  ELSE IF \A i \in 1..Len(s) : s[i] \in SafeChars THEN s
  ELSE <<"'">> \o replace_quote(s) \o <<"'">>

RECURSIVE join(_, _)
\* sep.join(parts)
join(sep, parts) ==
  IF parts = <<>> THEN <<>>
  ELSE IF Len(parts) = 1 THEN parts[1]
  ELSE parts[1] \o sep \o join(sep, Tail(parts))

\* the lexer of shlex.shlex(posix=True, whitespace_split=True, commenters=''):
\* state is " " between tokens, "a" inside a word, a quote character inside
\* quotes and the escape character after a backslash
LexerStart ==
  [state |-> " ", escapedstate |-> "a", token |-> <<>>, quoted |-> FALSE,
   out |-> <<>>]

\* shlex.read_token: the lexer consumes one character
read_char(x, c) ==
  IF x.state = " " THEN
    IF c \in Whitespace THEN x
    ELSE IF c = Escape THEN [x EXCEPT !.state = c, !.escapedstate = "a"]
    ELSE IF c \in Quotes THEN [x EXCEPT !.state = c]
    ELSE [x EXCEPT !.state = "a", !.token = <<c>>]
  ELSE IF x.state \in Quotes THEN
    IF c = x.state THEN [x EXCEPT !.state = "a", !.quoted = TRUE]
    ELSE IF c = Escape /\ x.state = "\""
    THEN [x EXCEPT !.state = c, !.escapedstate = x.state, !.quoted = TRUE]
    ELSE [x EXCEPT !.token = Append(@, c), !.quoted = TRUE]
  ELSE IF x.state = Escape THEN
    [x EXCEPT !.state = x.escapedstate,
              !.token = (IF x.escapedstate \in Quotes /\ c # Escape
                            /\ c # x.escapedstate
                         THEN Append(@, Escape) ELSE @) \o <<c>>]
  ELSE \* x.state = "a"
    IF c \in Whitespace
    THEN IF x.token # <<>> \/ x.quoted
         THEN [x EXCEPT !.state = " ", !.token = <<>>, !.quoted = FALSE,
                        !.out = Append(@, x.token)]
         ELSE [x EXCEPT !.state = " "]
    ELSE IF c \in Quotes THEN [x EXCEPT !.state = c]
    ELSE IF c = Escape THEN [x EXCEPT !.state = c, !.escapedstate = "a"]
    ELSE [x EXCEPT !.token = Append(@, c)]

RECURSIVE read_chars(_, _, _, _)
\* the lexer consumes s[lo..hi], left to right
read_chars(x, s, lo, hi) ==
  IF lo > hi THEN x
  ELSE IF lo = hi THEN read_char(x, s[lo])
  ELSE LET mid == (lo + hi) \div 2
       IN  CHOOSE z \in { read_chars(y, s, mid + 1, hi) :
                            y \in { read_chars(x, s, lo, mid) } } : TRUE

\* shlex.split(cmd): the argument vector, or ok = FALSE for ValueError
\* (end of input inside quotes or after a backslash)
split(cmd) ==
  LET x == read_chars(LexerStart, cmd, 1, Len(cmd))
  IN  IF x.state \in Quotes \/ x.state = Escape
      THEN [ok |-> FALSE, argv |-> <<>>]
      ELSE [ok |-> TRUE,
            argv |-> IF x.token # <<>> \/ x.quoted
                     THEN Append(x.out, x.token) ELSE x.out]

\* run(cmd): the argument vector handed to subprocess.run
run(cmd) == split(cmd)

\* systemctl(*args): the command string is built without a separator
\* between "--user" and the first argument
systemctl(args) ==
  run(SYSTEMCTL_USER \o join(<<" ">>, [i \in 1..Len(args) |-> quote(args[i])]))

\* the command of show_logs
journalctl(unit) == run(JOURNALCTL_U \o quote(unit) \o JOURNAL_TAIL)


\* ---- inputs: unit names and the replies of the external tools -----------
\* SERVICE is sys.argv[1]: a name with a space, both quote characters,
\* shell metacharacters and a backslash (the verbs are the plain words)
UNITS == { <<"a"," ","'","b","\"",";","$","\\">> }

\* a subprocess.CompletedProcess
Completed(rc, out, err) == [returncode |-> rc, stdout |-> out, stderr |-> err]
NoProc == Completed(-1, <<>>, <<>>)

ActiveReplies ==
  { Completed(0, <<"a","c","t","i","v","e","\n">>, <<>>),
    Completed(3, <<"i","n","a","c","t","i","v","e","\n">>, <<>>) }

EnabledReplies ==
  { Completed(0, <<"e","n","a","b","l","e","d","\n">>, <<>>),
    Completed(0, <<"s","t","a","t","i","c","\n">>, <<>>),
    Completed(1, <<>>, <<>>) }

ControlReplies ==
  { Completed(0, <<>>, <<>>),
    Completed(1, <<>>, <<"U","n","i","t"," ","b","u","s","y","\n">>),
    Completed(1, <<>>, <<" ","\n">>) }

JournalReplies ==
  { Completed(0, <<>>, <<>>),
    Completed(0, <<"o","\n">>, <<>>),
    Completed(0, <<>>, <<"e","\n">>),
    Completed(1, <<>>, <<"e","\n">>),
    Completed(1, <<"o","\n">>, <<"e","\n">>) }

\* ---- state --------------------------------------------------------------
VARIABLES
  service,        \* self.service
  phase,          \* main(): "ctor", "exec" (app.exec_), "quit", "crashed"
  _active,        \* self._active
  has_active,     \* whether the attribute self._active exists yet
  icon,           \* "on" (icon_on) or "off" (icon_off)
  toolTip,        \* "checking", "active", "inactive"
  startEnabled,   \* action_start.isEnabled()
  stopEnabled,    \* action_stop.isEnabled()
  restartEnabled, \* action_restart.isEnabled()
  enableChecked,  \* action_enable.isChecked()
  tickPending,    \* the QTimer has expired and its timeout is undelivered
  queue,          \* user input waiting in the event queue, oldest first
  inflight,       \* external invocations that have not returned
  h,              \* the slot the thread is executing, and its position
  dialogs,        \* number of open log dialogs, each a nested dlg.exec_()
  lastPoll,       \* history: what the last completed poll reported
  toggled         \* history: checkbox clicked since the last completed poll

vars == <<service, phase, _active, has_active, icon, toolTip, startEnabled,
          stopEnabled, restartEnabled, enableChecked, tickPending, queue,
          inflight, h, dialogs, lastPoll, toggled>>

display == <<_active, has_active, icon, toolTip, startEnabled, stopEnabled,
             restartEnabled, enableChecked, lastPoll, toggled>>

\* the thread is in an event loop, executing no slot
Idle ==
  [fn |-> "none", pc |-> "idle", action |-> <<>>, checked |-> FALSE,
   proc |-> NoProc, active |-> NoProc, enabled |-> NoProc,
   msg |-> <<>>, text |-> <<>>, ctl |-> 0, notes |-> 0, polls |-> 0, seen |-> FALSE]

\* stdout texts of the is-active and is-enabled queries that mean "yes"
ActiveTexts == { TEXT_ACTIVE, <<"a","c","t","i","v","e","\n">> }
EnabledTexts == { TEXT_ENABLED, <<"e","n","a","b","l","e","d","\n">> }

\* the verbs the program passes to systemctl
Verbs == {IS_ACTIVE, IS_ENABLED, START, STOP, RESTART, ENABLE, DISABLE}

\* systemctl(verb, unit) and the journalctl command of every unit, tabulated
SystemctlArgv == [u \in UNITS |-> [v \in Verbs |-> systemctl(<<v, u>>)]]
JournalctlArgv == [u \in UNITS |-> journalctl(u)]

\* an external invocation: the tool, the verb asked for, the argv built
SystemctlCall(verb) ==
  LET r == SystemctlArgv[service][verb]
  IN  [tool |-> "systemctl", verb |-> verb, ok |-> r.ok, argv |-> r.argv]

\* mutant: show_logs restarts the unit instead of reading its journal
JournalCallRestart ==
  LET r == SystemctlArgv[service][RESTART]
  IN  [tool |-> "systemctl", verb |-> RESTART, ok |-> r.ok, argv |-> r.argv]

\* the invocation of show_logs
JournalCall ==
  LET r == JournalctlArgv[service]
  IN  [tool |-> "journalctl", verb |-> <<>>, ok |-> r.ok, argv |-> r.argv]

\* the innermost invocation returns (or fails to start)
Returned == SubSeq(inflight, 1, Len(inflight) - 1)

Init ==
  /\ service \in UNITS
  /\ phase = "ctor"
  /\ _active = FALSE
  /\ has_active = FALSE
  /\ icon = "off"
  /\ toolTip = "checking"
  /\ startEnabled = TRUE
  /\ stopEnabled = TRUE
  /\ restartEnabled = TRUE
  /\ enableChecked = FALSE
  /\ tickPending = FALSE
  /\ queue = <<>>
  /\ inflight = <<>>
  /\ h = [Idle EXCEPT !.fn = "__init__", !.pc = "L72"]
  /\ dialogs = 0
  /\ lastPoll = [done |-> FALSE, active |-> FALSE, enabled |-> FALSE]
  /\ toggled = [pending |-> FALSE, to |-> FALSE]


\* ---- decisions of the slots ---------------------------------------------
\* mutant: the poll result is inverted when the click is resolved
toggle_action_inverted(active) == IF active THEN START ELSE STOP

\* on_activated: "stop" when self._active, else "start"
toggle_action(active) == IF active THEN STOP ELSE START

\* mutant: a notification for every exit code
notify_always(rc) == TRUE

\* do_action and toggle_enable: "if proc.returncode != 0: self.notify(...)"
notify_needed(rc) == rc # 0

\* mutant: do_action polls only after a failure
do_action_polls_on_failure(rc) == rc # 0

\* do_action: self.refresh_status() follows the if statement
do_action_polls(rc) == TRUE

\* mutant: toggle_enable never polls
toggle_enable_never_polls(rc) == FALSE

\* toggle_enable: self.refresh_status() is inside "if proc.returncode != 0"
toggle_enable_polls(rc) == rc # 0

\* mutant: the captured standard error is used untrimmed
message_untrimmed(hh, proc) ==
  IF proc.stderr # <<>> THEN proc.stderr
  ELSE IF hh.fn = "toggle_enable" THEN FAILED_ENABLE
  ELSE FAILED_TO \o hh.action \o <<" ">> \o service

\* the message of the notification
message(hh, proc) ==
  IF strip(proc.stderr) # <<>> THEN strip(proc.stderr)
  ELSE IF hh.fn = "toggle_enable" THEN FAILED_ENABLE
  ELSE FAILED_TO \o hh.action \o <<" ">> \o service

\* mutant: Start is enabled while the unit is active
start_enabled_when_active(active) == active

\* refresh_status: action_start.setEnabled(not self._active)
start_enabled(active) == ~active

\* mutant: Stop stays enabled whatever the poll reports
stop_enabled_always(active) == TRUE

\* refresh_status: action_stop.setEnabled(self._active)
stop_enabled(active) == active

\* mutant: self._active is assigned as soon as is-active has returned
active_stored_early(old, proc) == strip(proc.stdout) = TEXT_ACTIVE

\* refresh_status line 84: the result of is-active is bound to the local
\* name "active"; self._active keeps its value until line 87
active_after_first_query(old, proc) == old

\* mutant: setting the check mark from the poll emits triggered
setChecked_triggers_on_change(old, new) == old # new

\* refresh_status lines 103-105: setChecked runs between blockSignals(True)
\* and blockSignals(False), and QAction.setChecked never emits triggered
setChecked_triggers(old, new) == FALSE

\* mutant: an exception is swallowed in the constructor too
CanContinueAfterRaiseAnywhere == TRUE

\* main(): an exception leaving a slot can be survived only inside
\* app.exec_(); one leaving ServiceTray(SERVICE) leaves main()
CanContinueAfterRaise == phase = "exec"

\* mutant: the exit code decides
is_active_by_exit(proc) == proc.returncode = 0

\* refresh_status: active.stdout.strip() == "active"
is_active(proc) == strip(proc.stdout) = TEXT_ACTIVE

\* refresh_status: enabled.stdout.strip() == "enabled"
is_enabled(proc) == strip(proc.stdout) = TEXT_ENABLED

\* mutant: the event loop is re-entered while a child process runs
CanDispatchWhileBlocked ==
  /\ phase = "exec"
  /\ h.pc \in {"idle", "is-active", "is-enabled", "control", "journal"}

\* the event loop (app.exec_ or a dialog's exec_) delivers an event only
\* when the thread has returned to it
CanDispatch ==
  /\ phase = "exec"
  /\ h.fn = "none"

\* ---- the environment: timer and user ------------------------------------
\* mutant: the timer is single-shot and expires only once after its start
timer_single_shot == FALSE

\* QtCore.QTimer(self) with timer.start(CHECK_INTERVAL_MS): setSingleShot is
\* never called, so the timer restarts after every expiry
timer_rearms == TRUE

\* the QTimer started in __init__ expires; one expiry is pending at most
Timeout ==
  /\ phase \in {"ctor", "exec"}
  /\ timer_rearms \/ phase = "ctor"
  /\ ~tickPending
  /\ tickPending' = TRUE
  /\ UNCHANGED <<service, phase, queue, inflight, h, dialogs>>
  /\ UNCHANGED display

Intent(kind, reason, verb, seen) ==
  [kind |-> kind, reason |-> reason, verb |-> verb, seen |-> seen]

\* log dialogs open, being opened or asked for
LogsOutstanding ==
  dialogs + (IF h.fn = "show_logs" THEN 1 ELSE 0)
  + Cardinality({i \in 1..Len(queue) : queue[i].kind = "logs"})

\* what the user can do once tray.show() has run
UserIntents ==
  { Intent("activated", r, <<>>, (r = "Trigger") /\ _active) :
      r \in {"Trigger", "DoubleClick"} }
  \cup { Intent("action", "", v, FALSE) : v \in {START, STOP, RESTART} }
  \cup { Intent("enable", "", <<>>, FALSE), Intent("quit", "", <<>>, FALSE) }
  \cup (IF LogsOutstanding < MaxDialogs
        THEN { Intent("logs", "", <<>>, FALSE) } ELSE {})
  \cup (IF dialogs > 0 THEN { Intent("close", "", <<>>, FALSE) } ELSE {})

\* a click on the tray icon, a menu item or a dialog button is queued
UserInput ==
  /\ phase = "exec"
  /\ Len(queue) < MaxQueue
  /\ \E e \in UserIntents : queue' = Append(queue, e)
  /\ UNCHANGED <<service, phase, tickPending, inflight, h, dialogs>>
  /\ UNCHANGED display

\* ---- refresh_status -----------------------------------------------------
\* lines 84: the first query is issued and the thread blocks in run()
EnterRefresh(hh) ==
  /\ h' = [hh EXCEPT !.pc = "is-active", !.polls = @ + 1,
                     !.active = NoProc, !.enabled = NoProc]
  /\ inflight' = Append(inflight, SystemctlCall(IS_ACTIVE))

\* __init__ line 72: the initial poll
InitialPoll ==
  /\ phase = "ctor"
  /\ h.pc = "L72"
  /\ EnterRefresh(h)
  /\ UNCHANGED <<service, phase, tickPending, queue, dialogs>>
  /\ UNCHANGED display

\* timer.timeout -> refresh_status
TimerTick ==
  /\ CanDispatch
  /\ tickPending
  /\ tickPending' = FALSE
  /\ EnterRefresh([Idle EXCEPT !.fn = "refresh_status"])
  /\ UNCHANGED <<service, phase, queue, dialogs>>
  /\ UNCHANGED display

\* subprocess.run raises (tool missing, spawn failure) or shlex.split raised
Raise ==
  /\ h' = [Idle EXCEPT !.fn = h.fn, !.pc = "raised"]
  /\ inflight' = Returned

\* is-active returns; line 85 issues is-enabled
ReturnIsActive ==
  /\ phase \in {"ctor", "exec"}
  /\ h.pc = "is-active"
  /\ \/ /\ Raise
        /\ UNCHANGED _active
     \/ /\ inflight[Len(inflight)].ok
        /\ \E r \in ActiveReplies :
             /\ h' = [h EXCEPT !.pc = "is-enabled", !.active = r]
             /\ _active' = active_after_first_query(_active, r)
        /\ inflight' = Append(Returned, SystemctlCall(IS_ENABLED))
  /\ UNCHANGED <<service, phase, tickPending, queue, dialogs>>
  /\ UNCHANGED <<has_active, icon, toolTip, startEnabled, stopEnabled,
                 restartEnabled, enableChecked, lastPoll, toggled>>

\* is-enabled returns; lines 87-105 update self._active and the display
ReturnIsEnabled ==
  /\ phase \in {"ctor", "exec"}
  /\ h.pc = "is-enabled"
  /\ \/ /\ Raise
        /\ UNCHANGED queue
        /\ UNCHANGED display
     \/ /\ inflight[Len(inflight)].ok
        /\ inflight' = Returned
        /\ \E r \in EnabledReplies :
             /\ h' = [h EXCEPT !.pc = "done", !.enabled = r]
             /\ queue' = IF setChecked_triggers(enableChecked, is_enabled(r))
                         THEN Append(queue, Intent("enable", "", <<>>, FALSE))
                         ELSE queue
             /\ _active' = is_active(h.active)
             /\ has_active' = TRUE
             /\ icon' = IF is_active(h.active) THEN "on" ELSE "off"
             /\ toolTip' = IF is_active(h.active) THEN "active" ELSE "inactive"
             /\ startEnabled' = start_enabled(is_active(h.active))
             /\ stopEnabled' = stop_enabled(is_active(h.active))
             /\ restartEnabled' = TRUE
             /\ enableChecked' = is_enabled(r)
             /\ lastPoll' = [done |-> TRUE,
                             active |-> h.active.stdout \in ActiveTexts,
                             enabled |-> r.stdout \in EnabledTexts]
             /\ toggled' = [pending |-> FALSE, to |-> FALSE]
  /\ UNCHANGED <<service, phase, tickPending, dialogs>>


\* ---- do_action and toggle_enable ----------------------------------------
\* lines 108 and 116: the control command is issued and the thread blocks
EnterControl(fn, verb, checked, seen) ==
  /\ h' = [Idle EXCEPT !.fn = fn, !.pc = "control", !.action = verb,
                       !.checked = checked, !.ctl = 1, !.seen = seen]
  /\ inflight' = Append(inflight, SystemctlCall(verb))

\* activated -> on_activated(reason): a left click toggles start/stop
on_activated ==
  /\ CanDispatch
  /\ queue # <<>>
  /\ Head(queue).kind = "activated"
  /\ queue' = Tail(queue)
  /\ IF Head(queue).reason = "Trigger"
     THEN IF has_active
          THEN EnterControl("on_activated", toggle_action(_active), FALSE,
                            Head(queue).seen)
          ELSE /\ h' = [Idle EXCEPT !.fn = "on_activated", !.pc = "raised"]
               /\ UNCHANGED inflight
     ELSE /\ h' = Idle
          /\ UNCHANGED inflight
  /\ UNCHANGED <<service, phase, tickPending, dialogs>>
  /\ UNCHANGED display

\* action_start / action_stop / action_restart .triggered -> do_action(verb)
do_action ==
  /\ CanDispatch
  /\ queue # <<>>
  /\ Head(queue).kind = "action"
  /\ queue' = Tail(queue)
  /\ EnterControl("do_action", Head(queue).verb, FALSE, FALSE)
  /\ UNCHANGED <<service, phase, tickPending, dialogs>>
  /\ UNCHANGED display

\* action_enable.triggered(checked) -> toggle_enable(checked): the checkable
\* QAction has flipped its check mark before the signal is emitted
toggle_enable ==
  /\ CanDispatch
  /\ queue # <<>>
  /\ Head(queue).kind = "enable"
  /\ queue' = Tail(queue)
  /\ enableChecked' = ~enableChecked
  /\ toggled' = [pending |-> TRUE, to |-> ~enableChecked]
  /\ EnterControl("toggle_enable",
                  IF ~enableChecked THEN ENABLE ELSE DISABLE,
                  ~enableChecked, FALSE)
  /\ UNCHANGED <<service, phase, tickPending, dialogs>>
  /\ UNCHANGED <<_active, has_active, icon, toolTip, startEnabled,
                 stopEnabled, restartEnabled, lastPoll>>

\* the control command returns: notify on failure, then the reconciling poll
ReturnControl ==
  /\ phase = "exec"
  /\ h.pc = "control"
  /\ \/ Raise
     \/ /\ inflight[Len(inflight)].ok
        /\ \E r \in ControlReplies :
             LET note == notify_needed(r.returncode)
                 h1 == [h EXCEPT !.proc = r,
                                 !.notes = IF note THEN @ + 1 ELSE @,
                                 !.msg = IF note THEN message(h, r) ELSE @]
                 poll == IF h.fn = "toggle_enable"
                         THEN toggle_enable_polls(r.returncode)
                         ELSE do_action_polls(r.returncode)
             IN  IF poll
                 THEN /\ h' = [h1 EXCEPT !.pc = "is-active", !.polls = @ + 1]
                      /\ inflight' = Append(Returned, SystemctlCall(IS_ACTIVE))
                 ELSE /\ h' = [h1 EXCEPT !.pc = "done"]
                      /\ inflight' = Returned
  /\ UNCHANGED <<service, phase, tickPending, queue, dialogs>>
  /\ UNCHANGED display

\* ---- show_logs ----------------------------------------------------------
\* action_logs.triggered -> show_logs: line 124 issues the log query
show_logs ==
  /\ CanDispatch
  /\ queue # <<>>
  /\ Head(queue).kind = "logs"
  /\ queue' = Tail(queue)
  /\ h' = [Idle EXCEPT !.fn = "show_logs", !.pc = "journal"]
  /\ inflight' = Append(inflight, JournalCall)
  /\ UNCHANGED <<service, phase, tickPending, dialogs>>
  /\ UNCHANGED display

\* mutant: the dialog shows standard output only
log_text_stdout_only(p) == p.stdout

\* text.setPlainText(p.stdout if p.stdout else p.stderr)
log_text(p) == IF p.stdout # <<>> THEN p.stdout ELSE p.stderr

\* the log query returns; lines 127-137 build the dialog and fill its text
ReturnJournal ==
  /\ phase = "exec"
  /\ h.pc = "journal"
  /\ \/ Raise
     \/ /\ inflight[Len(inflight)].ok
        /\ inflight' = Returned
        /\ \E p \in JournalReplies :
             h' = [h EXCEPT !.pc = "exec_", !.proc = p, !.text = log_text(p)]
  /\ UNCHANGED <<service, phase, tickPending, queue, dialogs>>
  /\ UNCHANGED display

\* line 138: dlg.exec_() starts a nested event loop, inside which show_logs
\* stays suspended until the dialog is closed
ExecDialog ==
  /\ phase = "exec"
  /\ h.pc = "exec_"
  /\ dialogs' = dialogs + 1
  /\ h' = Idle
  /\ UNCHANGED <<service, phase, tickPending, queue, inflight>>
  /\ UNCHANGED display

\* the Close button: rejected -> dlg.reject; exec_() and show_logs return
CloseDialog ==
  /\ CanDispatch
  /\ queue # <<>>
  /\ Head(queue).kind = "close"
  /\ queue' = Tail(queue)
  /\ dialogs' = IF dialogs = 0 THEN 0 ELSE dialogs - 1
  /\ UNCHANGED <<service, phase, tickPending, inflight, h>>
  /\ UNCHANGED display

\* action_quit.triggered -> QApplication.quit: every event loop exits, main()
\* calls sys.exit and whatever was still undelivered is gone
Quit ==
  /\ CanDispatch
  /\ queue # <<>>
  /\ Head(queue).kind = "quit"
  /\ phase' = "quit"
  /\ queue' = <<>>
  /\ tickPending' = FALSE
  /\ dialogs' = 0
  /\ UNCHANGED <<service, inflight, h>>
  /\ UNCHANGED display

\* ---- leaving a slot -----------------------------------------------------
\* the slot returns to the event loop; __init__ returns to main(), which
\* shows the tray and enters app.exec_()
Finish ==
  /\ phase \in {"ctor", "exec"}
  /\ h.pc = "done"
  /\ h' = Idle
  /\ phase' = "exec"
  /\ UNCHANGED <<service, tickPending, queue, inflight, dialogs>>
  /\ UNCHANGED display

\* an exception leaves the slot.  In __init__ it leaves main() and the
\* process dies.  In a slot called by Qt, PyQt5 >= 5.5 calls qFatal() and
\* aborts; older PyQt5 prints the traceback and returns to the event loop.
Unwind ==
  /\ phase \in {"ctor", "exec"}
  /\ h.pc = "raised"
  /\ \/ /\ phase' = "crashed"
        /\ queue' = <<>>
        /\ tickPending' = FALSE
        /\ dialogs' = 0
        /\ UNCHANGED h
     \/ /\ CanContinueAfterRaise
        /\ h' = Idle
        /\ phase' = "exec"
        /\ UNCHANGED <<queue, tickPending, dialogs>>
  /\ UNCHANGED <<service, inflight>>
  /\ UNCHANGED display

Next ==
  \/ Timeout
  \/ UserInput
  \/ InitialPoll
  \/ TimerTick
  \/ ReturnIsActive
  \/ ReturnIsEnabled
  \/ on_activated
  \/ do_action
  \/ toggle_enable
  \/ ReturnControl
  \/ show_logs
  \/ ReturnJournal
  \/ ExecDialog
  \/ CloseDialog
  \/ Quit
  \/ Finish
  \/ Unwind

Spec == Init /\ [][Next]_vars

\* the thread takes the next step of the slot it is executing: a child
\* process exits, a slot returns; at most one of these is enabled at a time
ThreadStep ==
  \/ InitialPoll
  \/ ReturnIsActive
  \/ ReturnIsEnabled
  \/ ReturnControl
  \/ ReturnJournal
  \/ ExecDialog
  \/ Finish
  \/ Unwind

\* Scheduling.  The timer keeps expiring; the event loop starts its pass with
\* the expired timers, so a pending timeout is delivered at some return to
\* the loop however many user events arrive (strong fairness); every child
\* process exits (the assumption "every external invocation returns") and
\* the thread runs a slot to its end.  Nothing is assumed of the user.
Fairness ==
  /\ WF_vars(Timeout)
  /\ SF_vars(TimerTick)
  /\ WF_vars(ThreadStep)

LiveSpec == Spec /\ Fairness


\* ---- properties ---------------------------------------------------------
ControlSlots == {"on_activated", "do_action", "toggle_enable"}

C3_ToggleReadsLatestPoll ==
  (h.fn = "on_activated" /\ h.pc = "control") =>
     /\ lastPoll.done
     /\ h.action = (IF lastPoll.active THEN STOP ELSE START)

\* a click queued while the unit showed inactive is resolved to "stop"
\* because a poll reported active before the click was handled
C3_Witness ==
  /\ h.fn = "on_activated" /\ h.pc = "control"
  /\ ~h.seen /\ lastPoll.active /\ h.action = STOP

\* C4: a status query that cannot be executed does not escape the poll of
\* the constructor or of a timer tick, and the program does not crash.
C4_QueryErrorContained ==
  /\ (h.fn \in {"__init__", "refresh_status"} => h.pc # "raised")
  /\ phase # "crashed"

\* C5: once the control command of a slot has returned, the slot has issued
\* exactly one control command and has notified exactly once if the exit
\* code is non-zero and not at all if it is zero; a timer tick issues no
\* control command and no notification.
C5_NotifyOncePerFailure ==
  /\ (h.fn \in ControlSlots /\ h.proc.returncode # -1) =>
        /\ h.ctl = 1
        /\ h.notes = (IF h.proc.returncode # 0 THEN 1 ELSE 0)
  /\ (h.fn \in {"__init__", "refresh_status"}) => (h.ctl = 0 /\ h.notes = 0)

\* a failed menu action has returned with one notification
C5_Witness ==
  /\ h.fn = "do_action" /\ h.pc = "done"
  /\ h.proc.returncode # 0 /\ h.notes = 1 /\ h.ctl = 1

\* C6: when toggle_enable returns after a non-zero exit code, it has polled
\* and the checkbox shows what the is-enabled query of that poll reported.
C6_EnableFailureShowsPoll ==
  (h.fn = "toggle_enable" /\ h.pc = "done" /\ h.proc.returncode # 0) =>
     /\ h.polls = 1
     /\ enableChecked = (h.enabled.stdout \in EnabledTexts)
     /\ ~toggled.pending

\* a failed enable: the user checked the box, the poll unchecked it
C6_Witness ==
  /\ h.fn = "toggle_enable" /\ h.pc = "done" /\ h.proc.returncode # 0
  /\ h.checked /\ ~enableChecked

\* C7: every systemctl invocation in flight has the argument vector
\* systemctl, --user, verb, unit.
C7_ArgvExact ==
  \A i \in 1..Len(inflight) :
     inflight[i].tool = "systemctl" =>
        /\ inflight[i].ok
        /\ inflight[i].argv =
             << <<"s","y","s","t","e","m","c","t","l">>,
                <<"-","-","u","s","e","r">>,
                inflight[i].verb, service >>

\* C8: when the poll of a timer tick returns, active is true exactly if the
\* is-active output is "active" up to surrounding whitespace and the
\* checkbox is checked exactly if the is-enabled output is "enabled" up to
\* surrounding whitespace, whatever the exit codes.
C8_SnapshotMatchesOutput ==
  (h.fn = "refresh_status" /\ h.pc = "done") =>
     /\ _active = (h.active.stdout \in ActiveTexts)
     /\ enableChecked = (h.enabled.stdout \in EnabledTexts)

\* a tick found the unit active, and is-enabled exited 0 without saying
\* "enabled"
C8_Witness ==
  /\ h.fn = "refresh_status" /\ h.pc = "done"
  /\ _active /\ h.enabled.returncode = 0 /\ ~enableChecked

\* C9: at most one external invocation is in flight, and a slot that has
\* started is not replaced by another slot before it has returned.
C9_OneInFlight ==
  /\ [](Len(inflight) <= 1)
  /\ [][h.fn # "none" => h'.fn \in {h.fn, "none"}]_vars

\* the log dialog is open, the query of a tick is in flight and both a
\* click and the next timer expiry are waiting
C9_Witness ==
  /\ dialogs > 0 /\ h.fn = "refresh_status" /\ Len(inflight) = 1
  /\ queue # <<>> /\ tickPending

\* C10: an action intent issued while the slot of an earlier action intent
\* is still running is executed after it, never dropped: the program does not
\* end abnormally inside the first slot with the second intent still waiting.
C10_NeverDropped ==
  [][(h.fn \in ControlSlots /\ phase' = "crashed") =>
       \A i \in 1..Len(queue) :
          queue[i].kind \notin {"activated", "action", "enable"}]_vars

\* the slots that run do_action: start, stop or restart
ActionSlots == {"on_activated", "do_action"}

\* s is t with whitespace removed from both ends, and nothing more
IsTrimOf(s, t) ==
  /\ s # <<>>
  /\ s[1] \notin Whitespace
  /\ s[Len(s)] \notin Whitespace
  /\ \E i \in 1..Len(t) :
        /\ i + Len(s) - 1 <= Len(t)
        /\ SubSeq(t, i, i + Len(s) - 1) = s
        /\ \A j \in 1..Len(t) :
              (j < i \/ j > i + Len(s) - 1) => t[j] \in Whitespace

\* C11: from the moment a start, stop or restart has returned a non-zero
\* exit code, that is while its reconciling poll is in flight and the display
\* is not yet updated, one notification has been emitted; its message is the
\* trimmed standard error, or "Failed to <action> <unit>" exactly when the
\* standard error is empty or all whitespace; and when the slot returns, the
\* icon and the stored active value are those reported by that poll.
C11_NotifyThenPoll ==
  (h.fn \in ActionSlots /\ h.proc.returncode \notin {-1, 0}) =>
     /\ h.pc \in {"is-active", "is-enabled", "done"}
     /\ h.notes = 1
     /\ IF \A i \in 1..Len(h.proc.stderr) : h.proc.stderr[i] \in Whitespace
        THEN h.msg = FAILED_TO \o h.action \o <<" ">> \o service
        ELSE IsTrimOf(h.msg, h.proc.stderr)
     /\ h.pc = "done" =>
          /\ _active = (h.active.stdout \in ActiveTexts)
          /\ icon = (IF h.active.stdout \in ActiveTexts THEN "on" ELSE "off")

\* a stop failed with "Unit busy"; the message is the trimmed text and the
\* display after the poll still shows the unit active
C11_Witness ==
  /\ h.fn = "do_action" /\ h.pc = "done" /\ h.action = STOP
  /\ h.proc.returncode = 1
  /\ h.msg = <<"U","n","i","t"," ","b","u","s","y">>
  /\ _active /\ icon = "on"

\* C12 as stated: when the log query exits 0 with empty standard output, the
\* dialog text is the empty string, whatever was written to standard error.
C12_EmptyLogIsEmpty ==
  (h.fn = "show_logs" /\ h.pc = "exec_" /\ h.proc.returncode = 0
     /\ h.proc.stdout = <<>>) => h.text = <<>>

\* C12 amended: when the log query exits 0 with empty standard output, the
\* dialog text is what the call wrote to standard error, so it is the empty
\* string exactly when standard error is empty too.
C12_EmptyLogShowsStderr ==
  (h.fn = "show_logs" /\ h.pc = "exec_" /\ h.proc.returncode = 0
     /\ h.proc.stdout = <<>>) =>
       /\ h.text = h.proc.stderr
       /\ (h.text = <<>>) <=> (h.proc.stderr = <<>>)

\* the log query exited 0 with nothing on standard output and a line on
\* standard error, and the dialog is about to show that line
C12_Witness ==
  /\ h.fn = "show_logs" /\ h.pc = "exec_" /\ h.proc.returncode = 0
  /\ h.proc.stdout = <<>> /\ h.proc.stderr # <<>> /\ h.text = h.proc.stderr

\* C13: when the log query fails, no failure escapes show_logs and the dialog
\* text is the error text, also when the failing call wrote standard output.
C13_LogFailureShown ==
  /\ (h.fn = "show_logs" => h.pc # "raised")
  /\ (h.fn = "show_logs" /\ h.pc = "exec_" /\ h.proc.returncode \notin {-1, 0})
        => h.text = h.proc.stderr

\* C14: while an external invocation has not returned, a pending timer tick
\* or a queued user intent can be delivered by the event loop.
C14_NeverStalls ==
  (phase = "exec" /\ inflight # <<>> /\ (tickPending \/ queue # <<>>))
     => CanDispatch

\* the poll of a timer tick has started
TickPoll == h.fn = "refresh_status" /\ h.pc = "is-active"

\* a start, stop, restart, enable or disable has returned a non-zero exit code
ActionFailed == h.fn \in ControlSlots /\ h.proc.returncode \notin {-1, 0}

\* C15: in every run without quit in which every external invocation
\* returns an exit code (none fails to start), the polls of timer ticks
\* happen infinitely often; hence after every state, in particular after a
\* failed action and after every timer expiry, a later tick is polled.
C15_KeepsPolling ==
  [](h.pc # "raised" /\ phase # "quit") => []<>TickPoll

\* an action has failed and returns to the event loop with the next timer
\* expiry already waiting
C15_Witness ==
  /\ ActionFailed /\ h.pc = "done" /\ tickPending /\ phase = "exec"

\* C16: once a poll has completed, the stored active value and, unless the
\* checkbox was clicked since, the shown enabled value are those of one and
\* the same poll, in every state; they change only in the step in which the
\* second query of a poll returns, both from that poll's two outputs; and a
\* poll whose second query cannot be executed changes neither.
C16_AtomicPair ==
  /\ [](lastPoll.done =>
         /\ has_active
         /\ _active = lastPoll.active
         /\ ~toggled.pending => enableChecked = lastPoll.enabled)
  /\ [][(_active' # _active \/ lastPoll' # lastPoll) =>
          /\ h.pc = "is-enabled" /\ h'.pc = "done"
          /\ _active' = (h.active.stdout \in ActiveTexts)
          /\ enableChecked' = (h'.enabled.stdout \in EnabledTexts)]_vars
  /\ [][(h.pc = "is-enabled" /\ h'.pc = "raised") =>
          /\ _active' = _active
          /\ has_active' = has_active
          /\ enableChecked' = enableChecked
          /\ lastPoll' = lastPoll]_vars

\* the first query of a tick reported active while the stored value is
\* inactive, and the second query is in flight
C16_Witness ==
  /\ h.fn = "refresh_status" /\ h.pc = "is-enabled" /\ Len(inflight) = 1
  /\ h.active.stdout \in ActiveTexts /\ lastPoll.done /\ ~_active

\* C17: whenever the event loop runs or a slot connected to a signal is
\* executing, the first poll has completed and self._active exists; while
\* the constructor runs, nothing but the constructor executes; and a tray
\* click never fails on reading self._active, that is, on_activated never
\* raises in the step that starts it.
C17_NeverUnknown ==
  /\ []((phase = "exec" \/ h.fn \in ControlSlots \cup {"refresh_status", "show_logs"})
          => (has_active /\ lastPoll.done))
  /\ [](phase = "ctor" => h.fn = "__init__")
  /\ [][h.fn = "none" => ~(h'.fn = "on_activated" /\ h'.pc = "raised")]_vars

\* a tray click is being handled as "start", read from the stored value,
\* with the next timer expiry waiting
C17_Witness ==
  /\ h.fn = "on_activated" /\ h.pc = "control" /\ h.action = START
  /\ has_active /\ ~_active /\ tickPending

\* C18: when a slot returns after a poll, and whenever no slot is running,
\* Start is enabled exactly when the stored active value is false, Stop
\* exactly when it is true, Restart is enabled and the icon is "on" exactly
\* when it is true.
C18_SurfaceAgrees ==
  ((phase = "exec" /\ h.fn = "none") \/ (h.pc = "done" /\ h.polls > 0)) =>
     /\ startEnabled = ~_active
     /\ stopEnabled = _active
     /\ restartEnabled
     /\ icon = (IF _active THEN "on" ELSE "off")

\* no slot is running, the unit was polled inactive after it had been
\* started from the menu: Start is enabled and Stop is not
C18_Witness ==
  /\ phase = "exec" /\ h.fn = "none" /\ lastPoll.done
  /\ ~_active /\ startEnabled /\ ~stopEnabled /\ icon = "off" /\ dialogs > 0

\* the slots that are a poll and nothing else
PollSlots == {"__init__", "refresh_status"}

\* the commands that change the supervised unit
ControlVerbs == {START, STOP, RESTART, ENABLE, DISABLE}

\* C19: a poll has only is-active and is-enabled in flight and issues no
\* control command; a control command is in flight only inside a slot
\* started by a user intent; the step in which a poll sets the checkbox
\* adds nothing to the event queue and starts no slot; and the queue grows
\* only by user input, in steps that leave slot and checkbox alone.
C19_PollReadOnly ==
  /\ [](\A i \in 1..Len(inflight) :
          /\ h.fn \in PollSlots =>
                /\ inflight[i].tool = "systemctl"
                /\ inflight[i].verb \in {IS_ACTIVE, IS_ENABLED}
          /\ inflight[i].verb \in ControlVerbs => h.fn \in ControlSlots)
  /\ [](h.fn \in PollSlots => h.ctl = 0)
  /\ [][(h.pc = "is-enabled" /\ h'.pc = "done") =>
          (queue' = queue /\ h'.fn = h.fn /\ h'.ctl = h.ctl)]_vars
  /\ [][Len(queue') > Len(queue) =>
          (h' = h /\ enableChecked' = enableChecked)]_vars

\* the poll of a tick has checked the box; no command was issued and the
\* event queue is empty
C19_Witness ==
  /\ h.fn = "refresh_status" /\ h.pc = "done" /\ enableChecked
  /\ h.enabled.stdout \in EnabledTexts /\ h.ctl = 0 /\ queue = <<>>

\* the supervision state: the stored active value and what the tray shows
supervision ==
  <<_active, has_active, icon, toolTip, startEnabled, stopEnabled,
    restartEnabled, enableChecked>>

\* show_logs has only the log query in flight, has issued no control
\* command, and no step into, inside or out of show_logs changes the
\* supervision state
ShowLogsFrame ==
  /\ [](h.fn = "show_logs" =>
         /\ h.ctl = 0
         /\ \A i \in 1..Len(inflight) : inflight[i].tool = "journalctl")
  /\ [][(h.fn = "show_logs" \/ h'.fn = "show_logs") =>
          supervision' = supervision]_vars

\* C20 as stated: show_logs issues only the log query and changes nothing of
\* the supervision state, and while a log dialog is open the supervision
\* state changes only in a step of the poll of a timer tick.
C20_LogsFrameTimerOnly ==
  /\ ShowLogsFrame
  /\ [][(dialogs > 0 /\ supervision' # supervision) =>
          h.fn = "refresh_status"]_vars

\* C20 amended: show_logs issues only the log query and changes nothing of
\* the supervision state; while a log dialog is open the supervision state
\* changes only when the second query of a poll returns, be it the poll of a
\* timer tick or the reconciling poll of an action, or when the checkbox is
\* clicked, which flips the checkbox and nothing else.
C20_LogsFrame ==
  /\ ShowLogsFrame
  /\ [][(dialogs > 0 /\ supervision' # supervision) =>
          \/ h.pc = "is-enabled" /\ h'.pc = "done"
          \/ /\ h.fn = "none" /\ h'.fn = "toggle_enable"
             /\ enableChecked' = ~enableChecked
             /\ <<_active, has_active, icon, toolTip, startEnabled,
                  stopEnabled, restartEnabled>>'
                = <<_active, has_active, icon, toolTip, startEnabled,
                    stopEnabled, restartEnabled>>]_vars

\* with the log dialog open, a menu action has run and its reconciling poll
\* has updated the display
C20_Witness ==
  /\ dialogs > 0 /\ h.fn = "do_action" /\ h.pc = "done" /\ h.polls = 1

====
